---- MODULE Spec2Model ----
(***************************************************************************)
(* Model of the image-generation service layer of thumbpro: the retry      *)
(* loops, the withRetry wrapper, the vision-model fallback and the         *)
(* response normalisers of the successive revisions of geminiService.ts.   *)
(*                                                                         *)
(* One invocation of generateImageWithText / generateImageWithReference    *)
(* is followed from its start to its return or throw.  The backend is the  *)
(* environment: every call it receives either returns a response or        *)
(* throws an error, chosen nondeterministically.                           *)
(*                                                                         *)
(* An error message is modelled by the set of the substrings ("markers")   *)
(* the code searches it for, together with a tag naming the fixed text of  *)
(* the message; message.includes(m) is membership of m in that set.        *)
(***************************************************************************)
EXTENDS Integers, Sequences, FiniteSets, TLC

VARIABLES
    variant,          \* which revision of the service is running
    entry,            \* "text" = generateImageWithText, "reference" = generateImageWithReference
    pc,               \* position of the invocation
    attempts,         \* loop revisions: `attempts`; withRetry revisions: operation invocations so far
    retries,          \* withRetry: the `retries` argument of the current frame
    initialDelay,     \* withRetry: the `initialDelay` argument of the current frame
    delay,            \* duration of the wait in progress / last executed (ms)
    calls,            \* image-producing backend calls issued so far
    inflight,         \* backend calls (of any kind) issued and not yet completed
    response,         \* loop and direct revisions: the last generateContent response received
    waits,            \* waits executed so far
    caught,           \* the error last caught by the retry loop / withRetry
    thrown,           \* the error that leaves the invocation
    result,           \* the image bytes the invocation returns
    vi,               \* describeImageWithFallback: index of the vision model being tried
    lastError,        \* describeImageWithFallback: `lastError`
    passOrder,        \* vision models invoked by the current describeImageWithFallback pass, in order
    lastFailure,      \* detail of the last failed vision candidate of the current pass
    imageDescription, \* `imageDescription` of the current operation invocation
    descLog,          \* per operation invocation, the description its description step obtained
    descModel,        \* index of the vision model whose response gave imageDescription (0: none)
    synthLog,         \* per generateImages call of the reference flow: attempt and embedded description
    passStartWaits,   \* value of `waits` when the current describeImageWithFallback pass began
    quotaFailures,    \* failures caught so far by the retry loop / withRetry / catch block that it classifies as quota
    sawQuota,         \* some vision model of the current pass threw an error withRetry classifies as quota
    generated,        \* withRetry revisions: the last generateImages response received
    inv,              \* concurrent invocations: the locals of each of them
    overlap,          \* concurrent invocations: steps the others took during the wait in progress of each
    userPrompt,       \* the `prompt` argument of the invocation, as a sequence of words
    aspectRatio,      \* the `aspectRatio` argument of the invocation
    request,          \* the request composed for the image-producing backend call
    apiKey,           \* process.env.API_KEY is set
    uiPrompt,         \* App: the text of the prompt field
    uiAspectRatio,    \* App: the `aspectRatio` state
    generatedImage,   \* App: data URL of the image shown (<< >> when null)
    originalFile,     \* App: a file is chosen (originalFile is not null)
    crops,            \* App: aspect ratios of the file reads/crops still running
    referenceImage,   \* App: the cropped reference image, or NoImage
    isLoading,        \* App: the `isLoading` state
    error,            \* App: the error message shown ("null" when null)
    history,          \* App: the history list
    uiCall,           \* App: the service call handleGenerateClick awaits
    clock             \* App: generations completed (Date.now() of the last item)

vars == << variant, entry, pc, attempts, retries, initialDelay, delay, calls,
           inflight, response, waits, caught, thrown, result, vi, lastError,
           passOrder, lastFailure, imageDescription, descLog, descModel,
           synthLog, passStartWaits, quotaFailures, sawQuota, generated, inv, overlap,
           userPrompt, aspectRatio, request, apiKey,
           uiPrompt, uiAspectRatio, generatedImage, originalFile, crops,
           referenceImage, isLoading, error, history, uiCall, clock >>

composeVars == << userPrompt, aspectRatio, request >>

uiVars == << uiPrompt, uiAspectRatio, generatedImage, originalFile, crops,
             referenceImage, isLoading, error, history, uiCall, clock >>

----------------------------------------------------------------------------
(* Bounds of the model *)

MaxMarkers == 2      \* an error message carries at most this many of the searched substrings
MaxParts == 2        \* a content response carries at most this many parts
MaxImages == 2       \* a generateImages response carries at most this many entries
MaxOverlap == 3      \* steps of the other invocations counted during one wait
MaxPromptLen == 2    \* a user prompt has at most this many words
MaxGenerations == 7  \* successful generations of one session of the page

----------------------------------------------------------------------------
(* Revisions of the service *)

Variants == {"svcLoop", "p2Loop", "svcRetry", "p1Retry", "p1Direct"}
LoopVariants == {"svcLoop", "p2Loop"}
RetryVariants == {"svcRetry", "p1Retry"}
Entries == {"text", "reference"}

----------------------------------------------------------------------------
(* Errors *)

Markers == {"429", "RESOURCE_EXHAUSTED", "quota", "Quota",
            "404", "not found", "safetySetting", "blocked"}

MarkerSets == {m \in SUBSET Markers : Cardinality(m) <= MaxMarkers}

\* cls "Error": an Error object with a message; cls "Object": a thrown value
\* that is no Error and has no message property (markers then are those of
\* its JSON text).
\* detail: the message embedded in the text of an error built from another
\* one ("none" when the text embeds nothing).
Msg(markers, text) == [markers |-> markers, text |-> text]
NoDetail == Msg({}, "none")
UndefinedMsg == Msg({}, "undefined")

MkError(cls, markers, text) ==
    [cls |-> cls, markers |-> markers, text |-> text, detail |-> NoDetail]

NoError == MkError("none", {}, "none")

\* error.message of a thrown value (undefined for a value without message)
MessageOf(e) == IF e.cls = "Error" THEN Msg(e.markers, e.text) ELSE UndefinedMsg

\* What a backend call can throw: an Error whose message carries any of the
\* marker sets, or a bare object (with or without a 429 code in its JSON).
BackendErrors ==
    {MkError("Error", m, "Backend") : m \in MarkerSets}
    \cup {MkError("Object", m, "Backend") : m \in {{}, {"429"}}}

----------------------------------------------------------------------------
(* Backend responses *)

ImageMimes == {"image/png", "image/jpeg"}

\* A part of a content response.  kind "inline": part.inlineData is present,
\* with its data ("" = empty or absent) and its mimeType ("none" = absent);
\* kind "text": part.text is present.
MkPart(kind, data, mime, text) == [kind |-> kind, data |-> data, mime |-> mime, text |-> text]

Parts == { MkPart("inline", "img1", "image/png", ""),
           MkPart("inline", "img2", "image/jpeg", ""),
           MkPart("inline", "doc1", "application/pdf", ""),
           MkPart("inline", "", "image/png", ""),
           MkPart("inline", "raw1", "none", ""),
           MkPart("text", "", "none", "t1"),
           MkPart("text", "", "none", "t2") }

SeqsUpTo(S, n) == UNION {[1..k -> S] : k \in 0..n}

FinishReasons == {"none", "STOP", "SAFETY", "BLOCK", "PROHIBITED_CONTENT", "MAX_TOKENS"}
SafetyReasons == {"SAFETY", "BLOCK", "PROHIBITED_CONTENT"}

\* shape: how much of response.candidates[0].content.parts exists.
\* finishReason is that of the first candidate ("none" = absent).
Shapes == {"noCandidates", "emptyCandidates", "noContent", "noParts", "parts"}

ContentResponses ==
    [shape : {"parts"}, parts : SeqsUpTo(Parts, MaxParts), finishReason : FinishReasons]
    \cup [shape : {"noContent", "noParts"}, parts : {<< >>}, finishReason : FinishReasons]
    \cup [shape : {"noCandidates", "emptyCandidates"}, parts : {<< >>}, finishReason : {"none"}]

\* response.generatedImages of a generateImages response: each entry is the
\* imageBytes of the entry, "" when the entry, its image or its bytes are
\* absent or empty; << >> also stands for an absent list.
ImageBytes == {"png1", "png2", ""}
ImagesResponses == SeqsUpTo(ImageBytes, MaxImages)

NoResponse == [shape |-> "none", parts |-> << >>, finishReason |-> "none"]

\* A generateImages response as received (NoImages: none received yet)
Received(images) == [received |-> TRUE, images |-> images]
NoImages == [received |-> FALSE, images |-> << >>]

\* Outcome of a normaliser: the bytes, or the error it throws.
Ok(data) == [data |-> data, err |-> NoError]
Fail(e) == [data |-> "", err |-> e]

\* The first of the indices in S (where a scan in order stops), 0 when S is empty.
FirstIdx(S) == IF S = {} THEN 0 ELSE CHOOSE i \in S : \A j \in S : i <= j

----------------------------------------------------------------------------
(* Response normalisers *)

HasInlineData(part) == part.kind = "inline" /\ part.data # ""

\* Inline extraction of the loop revisions: first part with non-empty
\* inlineData.data, whatever its MIME type.  response.candidates[0] of an
\* empty candidates array is undefined, so reading .content throws.
LoopExtract(resp) ==
    IF resp.shape = "emptyCandidates" THEN Fail(MkError("Error", {}, "TypeError"))
    ELSE LET i == IF resp.shape = "parts" THEN FirstIdx({k \in 1..Len(resp.parts) : HasInlineData(resp.parts[k])}) ELSE 0
         IN IF i = 0 THEN Fail(MkError("Error", {}, "Empty"))
            ELSE Ok(resp.parts[i].data)

IsImagePart(part) == part.kind = "inline" /\ part.mime \in ImageMimes

\* part.inlineData.mimeType.startsWith throws when mimeType is absent.
ThrowsOnMime(part) == part.kind = "inline" /\ part.mime = "none"

StopsScan(part) == IsImagePart(part) \/ ThrowsOnMime(part)

extractImageFromCandidate(resp) ==
    IF resp.shape # "parts"
    THEN IF resp.finishReason \notin {"none", "STOP"}
         THEN IF resp.finishReason \in SafetyReasons
              THEN Fail(MkError("Error", {}, "PolicyBlocked"))
              ELSE Fail([MkError("Error", {}, "Interrupted")
                            EXCEPT !.detail = Msg({}, resp.finishReason)])
         ELSE Fail(MkError("Error", {}, "NoContent"))
    ELSE LET i == FirstIdx({k \in 1..Len(resp.parts) : StopsScan(resp.parts[k])})
         IN IF i = 0 THEN Fail(MkError("Error", {}, "NoImage"))
            ELSE IF ThrowsOnMime(resp.parts[i]) THEN Fail(MkError("Error", {}, "TypeError"))
            ELSE Ok(resp.parts[i].data)

\* response.generatedImages?.[0]?.image?.imageBytes
ExtractImageBytes(images) ==
    IF Len(images) = 0 \/ images[1] = ""
    THEN Fail(MkError("Error", {}, "Empty"))
    ELSE Ok(images[1])

\* response.candidates?.[0]?.content?.parts?.[0]?.text, "" when undefined
FirstText(resp) ==
    IF resp.shape = "parts" /\ Len(resp.parts) > 0 /\ resp.parts[1].kind = "text"
    THEN resp.parts[1].text
    ELSE ""

\* The texts a description call can yield, over every response it can get
VisionTexts == {FirstText(resp) : resp \in ContentResponses}

----------------------------------------------------------------------------
(* Program constants *)

MaxAttemptsSvc == 5        \* services/geminiService.ts, loop revision
MaxAttemptsP2 == 10        \* part_002
BackoffCap == 10000
BackoffUnit == 1000
LinearStep == 15000
RetriesSvc == 2
InitialDelaySvc == 60000
RetriesP1 == 3
InitialDelayP1 == 10000
DelayStepP1 == 5000

\* Math.random() * 1000 lies in [0, 1000)
Jitters == {0, 500, 999}

visionModels == << "gemini-1.5-flash", "gemini-1.5-flash-001", "gemini-1.5-flash-002",
                   "gemini-1.5-flash-8b", "gemini-1.5-pro", "gemini-1.5-pro-001",
                   "gemini-1.5-pro-002", "gemini-pro-vision" >>

maxAttempts(v) == IF v = "svcLoop" THEN MaxAttemptsSvc ELSE MaxAttemptsP2

Min(a, b) == IF a < b THEN a ELSE b

----------------------------------------------------------------------------
(* Error classification *)

Has(e, ms) == e.markers \cap ms # {}

\* Variation of isQuotaError: every Error counts as a quota error
isQuotaErrorAnyError(e) == e.cls = "Error"

\* loop revisions: error instanceof Error && message includes 429 / RESOURCE_EXHAUSTED / quota
isQuotaError(e) == e.cls = "Error" /\ Has(e, {"429", "RESOURCE_EXHAUSTED", "quota"})

\* withRetry: services revision tests error.message || JSON.stringify(error);
\* part_001 tests error.message?.includes, false for a value without message
RetryQuota(v, e) ==
    IF v = "svcRetry"
    THEN Has(e, {"429", "RESOURCE_EXHAUSTED", "Quota"})
    ELSE e.cls = "Error" /\ Has(e, {"429", "RESOURCE_EXHAUSTED", "Quota"})

\* Variation of shouldRetry: the loop gives up one attempt early
shouldRetryEarlyStop(e, a, v) == isQuotaError(e) /\ a < maxAttempts(v) - 1

\* Variation of shouldRetry: the bound on attempts is not tested
shouldRetryUnbounded(e, a, v) == isQuotaError(e)

\* Variation of shouldRetry: the bound is tested with <= instead of <
shouldRetryOffByOne(e, a, v) == isQuotaError(e) /\ a <= maxAttempts(v)

\* Condition of the loop revisions to wait and try again, a being `attempts`
shouldRetry(e, a, v) == isQuotaError(e) /\ a < maxAttempts(v)

\* Markers that open the policy-block branch of the loop revisions
SafetyMarkers(v) == IF v = "svcLoop" THEN {"safetySetting", "blocked"} ELSE {"safetySetting"}

\* Error raised for a message with a safety marker: services speaks of the
\* safety filters and asks to change the description, part_002 of an API
\* configuration error.
SafetyText(v) == IF v = "svcLoop" THEN "PolicyBlocked" ELSE "SafetyConfig"

\* Error with a fixed text embedding the message of e
Wrap(e) == [MkError("Error", e.markers, "Wrapped") EXCEPT !.detail = MessageOf(e)]

\* The error the catch block of a loop revision throws once it gives up
LoopClassify(v, e) ==
    IF e.cls # "Error" THEN MkError("Error", {}, "Unexpected")
    ELSE IF isQuotaError(e) THEN MkError("Error", {}, "QuotaExceeded")
    ELSE IF Has(e, SafetyMarkers(v)) THEN MkError("Error", {}, SafetyText(v))
    ELSE Wrap(e)

\* Delay of the loop revisions before the next attempt, a being `attempts`
LoopDelays(v, a) ==
    IF v = "svcLoop"
    THEN {Min(BackoffCap, (2 ^ a) * BackoffUnit) + j : j \in Jitters}
    ELSE {LinearStep * a}

\* part_001 direct revision: error instanceof Error && message includes 429 / RESOURCE_EXHAUSTED
DirectQuota(e) == e.cls = "Error" /\ Has(e, {"429", "RESOURCE_EXHAUSTED"})

\* The error the catch block of the part_001 direct revision throws
DirectClassify(en, e) ==
    IF e.cls # "Error" THEN MkError("Error", {}, "Unknown")
    ELSE IF en = "text" /\ Has(e, {"404", "not found"}) THEN MkError("Error", {}, "NotAvailable")
    ELSE IF DirectQuota(e)
         THEN MkError("Error", IF en = "text" THEN {"Quota"} ELSE {}, "QuotaExceeded")
    ELSE e

\* Variation of Aggregate: the text does not embed the message of lastError
AggregateWithoutDetail(le) == MkError("Error", {}, "Aggregate")

\* describeImageWithFallback: the error thrown once every model was tried;
\* its text embeds lastError?.message
Aggregate(le) ==
    [MkError("Error", IF le.cls = "Error" THEN le.markers ELSE {}, "Aggregate")
        EXCEPT !.detail = MessageOf(le)]

----------------------------------------------------------------------------
(* Locals of an invocation, for the runs with concurrent invocations *)

Invocations == {1, 2}

Locals(p, a, r, d) ==
    [pc |-> p, attempts |-> a, retries |-> r, initialDelay |-> d, delay |-> 0,
     waits |-> 0, caught |-> NoError, thrown |-> NoError, result |-> ""]

IdleLocals == Locals("idle", 0, 0, 0)

----------------------------------------------------------------------------
(* Arguments and composed request *)

AspectRatios == {"16:9", "9:16", "1:1", "4:3", "3:4"}

\* aspectRatio: string = '16:9'
DefaultAspectRatio == "16:9"

\* Words a user prompt is made of: an ordinary word and words that are
\* themselves aspect-ratio literals
UserWords == {"cat", "16:9", "1:1"}
UserPrompts == SeqsUpTo(UserWords, MaxPromptLen)

\* The request of the image-producing call: the prompt text as a sequence of
\* segments (fixed text of the template, inserted values) and config.aspectRatio
\* ("none": the config carries no aspect ratio)
MkRequest(text, ratio) == [sent |-> TRUE, text |-> text, aspectRatio |-> ratio]
NoRequest == [sent |-> FALSE, text |-> << >>, aspectRatio |-> "none"]

----------------------------------------------------------------------------
(* App component: values of its state *)

\* History keeps at most this many items
HistoryMax == 6

\* Aspect ratios the buttons of the page are pressed with
UiRatios == {"16:9", "1:1"}

\* Texts typed into the prompt field
TypedPrompts == {"", " ", "neon"}

\* prompt.trim()
trim(p) == IF p = " " THEN "" ELSE p

NullUrl == << >>

\* `data:image/png;base64,${newBase64Image}`, as the pieces around its comma
DataUrl(bytes) == << "data:image/png;base64", bytes >>

\* dataUrl.split(',')[1]
getBase64FromDataUrl(dataUrl) == dataUrl[2]

\* The bytes the n-th successful generation returns
Payload(n) == "img" \o ToString(n)

NoImage == [set |-> FALSE, data |-> "none", mimeType |-> "none"]
Image(data, mimeType) == [set |-> TRUE, data |-> data, mimeType |-> mimeType]

\* The reference image processFileWithRatio stores for a ratio
Crop(ratio) == Image("crop " \o ratio, "image/png")

NoCall == [fn |-> "none", prompt |-> "", images |-> << >>, aspectRatio |-> "none"]
MkCall(fn, p, images, ratio) ==
    [fn |-> fn, prompt |-> p, images |-> images, aspectRatio |-> ratio]

NullError == "null"

\* The App component when first rendered
InitApp ==
    /\ uiPrompt = ""
    /\ uiAspectRatio = "16:9"
    /\ generatedImage = NullUrl
    /\ originalFile = FALSE
    /\ crops = {}
    /\ referenceImage = NoImage
    /\ isLoading = FALSE
    /\ error = NullError
    /\ history = << >>
    /\ uiCall = NoCall
    /\ clock = 0

----------------------------------------------------------------------------
(* State after the module is loaded, before the invocation starts *)

InitService ==
    /\ variant \in Variants
    /\ entry \in Entries
    /\ pc = "idle"
    /\ attempts = 0
    /\ retries = 0
    /\ initialDelay = 0
    /\ delay = 0
    /\ calls = 0
    /\ inflight = 0
    /\ response = NoResponse
    /\ waits = 0
    /\ caught = NoError
    /\ thrown = NoError
    /\ result = ""
    /\ vi = 0
    /\ lastError = NoError
    /\ passOrder = << >>
    /\ lastFailure = NoDetail
    /\ imageDescription = ""
    /\ descLog = << >>
    /\ descModel = 0
    /\ synthLog = << >>
    /\ passStartWaits = 0
    /\ quotaFailures = 0
    /\ sawQuota = FALSE
    /\ generated = NoImages
    /\ inv = [i \in Invocations |-> IdleLocals]
    /\ overlap = [i \in Invocations |-> 0]
    /\ request = NoRequest
    /\ InitApp

\* The error the check of process.env.API_KEY throws
MissingKey == MkError("Error", {}, "API_KEY environment variable not set")

\* The error evaluating the module throws: all revisions but the loop
\* revision of the services check the key at the top level of the module
ModuleInitError(v, key) ==
    IF ~key /\ v # "svcLoop" THEN MissingKey ELSE NoError

\* An invocation of a module loaded with the key set
Init ==
    /\ InitService
    /\ userPrompt = << >>
    /\ aspectRatio = DefaultAspectRatio
    /\ apiKey = TRUE

ctlVars == << pc, attempts, retries, initialDelay, delay, waits, caught, thrown, result,
              quotaFailures >>
netVars == << calls, inflight >>
visionVars == << vi, lastError, passOrder, lastFailure, imageDescription, descLog,
                 descModel, synthLog, passStartWaits, sawQuota >>

\* Variation of Net: a new call is issued without awaiting the completion of
\* the previous one
NetNoAwait(completes, issues, image) ==
    /\ calls' = calls + image
    /\ inflight' = inflight + issues

\* Effect of a step on the backend counters: it sees `completes` calls
\* complete and issues `issues` new ones, `image` of them image-producing
\* (the others are description calls to a vision model).
Net(completes, issues, image) ==
    /\ calls' = calls + image
    /\ inflight' = inflight - completes + issues

\* Variation of Return: the bytes are returned as a data URL
ReturnDataUrl(data) ==
    /\ pc' = "done"
    /\ result' = "data:image/png;base64," \o data
    /\ UNCHANGED << delay, waits, caught, thrown, quotaFailures >>

\* return base64ImageBytes
Return(data) ==
    /\ pc' = "done"
    /\ result' = data
    /\ UNCHANGED << delay, waits, caught, thrown, quotaFailures >>

----------------------------------------------------------------------------
(* Loop revisions: services/geminiService.ts (first half) and part_002 *)

\* Entry of the function up to the first await: attempts++ and the call
LoopStart ==
    /\ pc = "idle"
    /\ variant \in LoopVariants
    /\ apiKey
    /\ pc' = "calling"
    /\ attempts' = attempts + 1
    /\ Net(0, 1, 1)
    /\ response' = NoResponse
    /\ UNCHANGED << retries, initialDelay, delay, waits, caught, thrown, result, quotaFailures >>
    /\ UNCHANGED << variant, entry, generated, inv, overlap, composeVars, apiKey, uiVars >>
    /\ UNCHANGED visionVars

\* catch (error) of the loop: wait and continue, or classify and throw
LoopCatch(e) ==
    /\ caught' = e
    /\ result' = result
    /\ quotaFailures' = quotaFailures + (IF isQuotaError(e) THEN 1 ELSE 0)
    /\ IF shouldRetry(e, attempts, variant)
       THEN /\ pc' = "waiting"
            /\ delay' \in LoopDelays(variant, attempts)
            /\ waits' = waits + 1
            /\ thrown' = thrown
       ELSE /\ pc' = "failed"
            /\ thrown' = LoopClassify(variant, e)
            /\ UNCHANGED << delay, waits >>

\* The call returns a response: extract the image or throw
LoopReturns ==
    /\ pc = "calling"
    /\ variant \in LoopVariants
    /\ \E resp \in ContentResponses :
          /\ response' = resp
          /\ LET o == LoopExtract(resp)
             IN IF o.err = NoError THEN Return(o.data) ELSE LoopCatch(o.err)
    /\ Net(1, 0, 0)
    /\ UNCHANGED << attempts, retries, initialDelay >>
    /\ UNCHANGED << variant, entry, generated, inv, overlap, composeVars, apiKey, uiVars >>
    /\ UNCHANGED visionVars

\* The call throws
LoopThrows ==
    /\ pc = "calling"
    /\ variant \in LoopVariants
    /\ \E e \in BackendErrors : LoopCatch(e)
    /\ response' = NoResponse
    /\ Net(1, 0, 0)
    /\ UNCHANGED << attempts, retries, initialDelay >>
    /\ UNCHANGED << variant, entry, generated, inv, overlap, composeVars, apiKey, uiVars >>
    /\ UNCHANGED visionVars

\* await wait(delay) completes; continue: next iteration up to its await
LoopWaitDone ==
    /\ pc = "waiting"
    /\ variant \in LoopVariants
    /\ pc' = "calling"
    /\ attempts' = attempts + 1
    /\ caught' = NoError
    /\ Net(0, 1, 1)
    /\ response' = NoResponse
    /\ UNCHANGED << retries, initialDelay, delay, waits, thrown, result, quotaFailures >>
    /\ UNCHANGED << variant, entry, generated, inv, overlap, composeVars, apiKey, uiVars >>
    /\ UNCHANGED visionVars

----------------------------------------------------------------------------
(* Direct revision: part_001 (first half), one call and no retry *)

DirectStart ==
    /\ pc = "idle"
    /\ variant = "p1Direct"
    /\ apiKey
    /\ pc' = "calling"
    /\ attempts' = attempts + 1
    /\ Net(0, 1, 1)
    /\ response' = NoResponse
    /\ UNCHANGED << retries, initialDelay, delay, waits, caught, thrown, result, quotaFailures >>
    /\ UNCHANGED << variant, entry, generated, inv, overlap, composeVars, apiKey, uiVars >>
    /\ UNCHANGED visionVars

DirectCatch(e) ==
    /\ caught' = e
    /\ quotaFailures' = quotaFailures + (IF DirectQuota(e) THEN 1 ELSE 0)
    /\ pc' = "failed"
    /\ thrown' = DirectClassify(entry, e)
    /\ UNCHANGED << delay, waits, result >>

DirectReturns ==
    /\ pc = "calling"
    /\ variant = "p1Direct"
    /\ \E resp \in ContentResponses :
          /\ response' = resp
          /\ LET o == extractImageFromCandidate(resp)
             IN IF o.err = NoError THEN Return(o.data) ELSE DirectCatch(o.err)
    /\ Net(1, 0, 0)
    /\ UNCHANGED << attempts, retries, initialDelay >>
    /\ UNCHANGED << variant, entry, generated, inv, overlap, composeVars, apiKey, uiVars >>
    /\ UNCHANGED visionVars

DirectThrows ==
    /\ pc = "calling"
    /\ variant = "p1Direct"
    /\ \E e \in BackendErrors : DirectCatch(e)
    /\ response' = NoResponse
    /\ Net(1, 0, 0)
    /\ UNCHANGED << attempts, retries, initialDelay >>
    /\ UNCHANGED << variant, entry, generated, inv, overlap, composeVars, apiKey, uiVars >>
    /\ UNCHANGED visionVars

----------------------------------------------------------------------------
(* withRetry revisions: services/geminiService.ts (second half), part_001  *)
(* (second half)                                                           *)

DescFailed == "failed"

\* Variation of PromptDescription: the first description ever obtained is
\* kept and reused by later operation invocations
PromptDescriptionCached(fresh, log) ==
    IF log # << >> /\ log[1] # DescFailed THEN log[1] ELSE fresh

\* The description embedded in finalPrompt: the imageDescription constant
\* of the running operation invocation (fresh), whatever earlier invocations
\* obtained (log).
PromptDescription(fresh, log) == fresh

\* Entry in synthLog: the generateImages call of operation invocation a,
\* with the description its prompt embeds.
finalPrompt(a, description) == [attempt |-> a, desc |-> description]

\* Default arguments of withRetry
DefaultRetries(v) == IF v = "svcRetry" THEN RetriesSvc ELSE RetriesP1
DefaultInitialDelay(v) == IF v = "svcRetry" THEN InitialDelaySvc ELSE InitialDelayP1

\* Variation of NextRetries: the recursive call is given the same retries
NextRetriesSame(r) == r

\* retries passed to the recursive call
NextRetries(r) == r - 1

\* initialDelay passed to the recursive call
NextInitialDelay(v, d) == IF v = "svcRetry" THEN d ELSE d + DelayStepP1

\* Variation of NextCandidate: a model is skipped
NextCandidateSkipping(i) == i + 2

\* for (const model of visionModels): the model tried after model i
NextCandidate(i) == i + 1

\* Variation of FallbackWaits: one wait before the next model
FallbackWaitsOne(e) == 1

\* Waits the catch block of describeImageWithFallback executes before it
\* continues with the next model
FallbackWaits(e) == 0

\* The operation closure returns or throws after its generateImages call:
\* its locals and those of describeImageWithFallback are gone
OperationEnds ==
    /\ vi' = 0
    /\ lastError' = NoError
    /\ passOrder' = << >>
    /\ lastFailure' = NoDetail
    /\ imageDescription' = ""
    /\ descModel' = 0
    /\ passStartWaits' = 0
    /\ sawQuota' = FALSE
    /\ UNCHANGED << descLog, synthLog >>

\* Variation of OperationBegin: when an earlier invocation already obtained
\* a description, the retry resumes at the generateImages call
OperationBeginResuming ==
    /\ attempts' = attempts + 1
    /\ IF entry = "text" \/ (descLog # << >> /\ descLog[Len(descLog)] # DescFailed)
       THEN /\ pc' = "synth"
            /\ Net(0, 1, 1)
            /\ UNCHANGED visionVars
       ELSE /\ pc' = "vision"
            /\ vi' = 1
            /\ passOrder' = << 1 >>
            /\ lastError' = NoError
            /\ lastFailure' = NoDetail
            /\ imageDescription' = ""
            /\ descModel' = 0
            /\ passStartWaits' = waits
            /\ sawQuota' = FALSE
            /\ Net(0, 1, 0)
            /\ UNCHANGED << descLog, synthLog >>

\* operation(): the closure runs up to its first await
OperationBegin ==
    /\ attempts' = attempts + 1
    /\ IF entry = "text"
       THEN /\ pc' = "synth"
            /\ Net(0, 1, 1)
            /\ UNCHANGED visionVars
       ELSE /\ pc' = "vision"
            /\ vi' = 1
            /\ passOrder' = << 1 >>
            /\ lastError' = NoError
            /\ lastFailure' = NoDetail
            /\ imageDescription' = ""
            /\ descModel' = 0
            /\ passStartWaits' = waits
            /\ sawQuota' = FALSE
            /\ Net(0, 1, 0)
            /\ UNCHANGED << descLog, synthLog >>

\* generateImageWithText / generateImageWithReference: withRetry(operation)
RetryStart ==
    /\ pc = "idle"
    /\ variant \in RetryVariants
    /\ apiKey
    /\ retries' = DefaultRetries(variant)
    /\ initialDelay' = DefaultInitialDelay(variant)
    /\ OperationBegin
    /\ UNCHANGED << delay, waits, caught, thrown, result, quotaFailures >>
    /\ UNCHANGED << variant, entry, response, generated, inv, overlap, composeVars, apiKey, uiVars >>

\* Variation of RetryCatch: the test on retries admits zero
RetryCatchAtZero(e) ==
    /\ caught' = e
    /\ result' = result
    /\ quotaFailures' = quotaFailures + (IF RetryQuota(variant, e) THEN 1 ELSE 0)
    /\ IF retries >= 0 /\ RetryQuota(variant, e)
       THEN /\ pc' = "waiting"
            /\ delay' = initialDelay
            /\ waits' = waits + 1
            /\ thrown' = thrown
       ELSE /\ pc' = "failed"
            /\ thrown' = e
            /\ UNCHANGED << delay, waits >>

\* catch (error) of withRetry: wait and recurse, or rethrow
RetryCatch(e) ==
    /\ caught' = e
    /\ result' = result
    /\ quotaFailures' = quotaFailures + (IF RetryQuota(variant, e) THEN 1 ELSE 0)
    /\ IF retries > 0 /\ RetryQuota(variant, e)
       THEN /\ pc' = "waiting"
            /\ delay' = initialDelay
            /\ waits' = waits + 1
            /\ thrown' = thrown
       ELSE /\ pc' = "failed"
            /\ thrown' = e
            /\ UNCHANGED << delay, waits >>

\* await wait(initialDelay) completes: withRetry(operation, retries - 1, ...)
RetryWaitDone ==
    /\ pc = "waiting"
    /\ variant \in RetryVariants
    /\ retries' = NextRetries(retries)
    /\ initialDelay' = NextInitialDelay(variant, initialDelay)
    /\ caught' = NoError
    /\ OperationBegin
    /\ UNCHANGED << delay, waits, thrown, result, quotaFailures >>
    /\ UNCHANGED << variant, entry, response, generated, inv, overlap, composeVars, apiKey, uiVars >>

\* The description step yields `text` from vision model `model`: build
\* finalPrompt and call generateImages
DescriptionObtained(text, model) ==
    /\ imageDescription' = text
    /\ descModel' = model
    /\ descLog' = Append(descLog, text)
    /\ synthLog' = Append(synthLog,
                          finalPrompt(attempts, PromptDescription(imageDescription', descLog)))
    /\ pc' = "synth"
    /\ Net(1, 1, 1)
    /\ UNCHANGED << vi, lastError, passOrder, lastFailure, passStartWaits, sawQuota >>
    /\ UNCHANGED << delay, waits, caught, thrown, result, quotaFailures >>

\* describeImageWithFallback, model vi gave no description: try the next
\* model, or throw the aggregate error when vi was the last one.  quota:
\* the model threw an error that withRetry classifies as quota.
VisionAdvance(le, failure, quota) ==
    /\ lastError' = le
    /\ lastFailure' = failure
    /\ sawQuota' = (sawQuota \/ quota)
    /\ UNCHANGED << imageDescription, descModel, synthLog, passStartWaits >>
    /\ IF vi < Len(visionModels)
       THEN /\ vi' = NextCandidate(vi)
            /\ passOrder' = Append(passOrder, vi')
            /\ pc' = "vision"
            /\ waits' = waits + FallbackWaits(le)
            /\ Net(1, 1, 0)
            /\ UNCHANGED << delay, caught, thrown, result, descLog, quotaFailures >>
       ELSE /\ descLog' = Append(descLog, DescFailed)
            /\ RetryCatch(Aggregate(le))
            /\ Net(1, 0, 0)
            /\ UNCHANGED << vi, passOrder >>

\* services: the generateContent call of describeImageWithFallback returns
DescribeReturns ==
    /\ pc = "vision"
    /\ variant = "svcRetry"
    /\ \E text \in VisionTexts :
          IF text # ""
          THEN DescriptionObtained(text, vi)
          ELSE VisionAdvance(lastError, Msg({}, "NoText"), FALSE)
    /\ UNCHANGED << attempts, retries, initialDelay >>
    /\ UNCHANGED << variant, entry, response, generated, inv, overlap, composeVars, apiKey, uiVars >>

\* Variation of DescribeThrows: an error that is neither not-found nor
\* quota is rethrown at once instead of trying the next model
DescribeThrowsPropagating ==
    /\ pc = "vision"
    /\ variant = "svcRetry"
    /\ \E e \in BackendErrors :
          IF Has(e, {"404", "not found", "429", "RESOURCE_EXHAUSTED", "Quota"})
          THEN VisionAdvance(e, MessageOf(e), RetryQuota(variant, e))
          ELSE /\ lastError' = e
               /\ sawQuota' = sawQuota
               /\ lastFailure' = MessageOf(e)
               /\ descLog' = Append(descLog, DescFailed)
               /\ RetryCatch(e)
               /\ Net(1, 0, 0)
               /\ UNCHANGED << vi, passOrder, imageDescription, descModel, synthLog,
                               passStartWaits >>
    /\ UNCHANGED << attempts, retries, initialDelay >>
    /\ UNCHANGED << variant, entry, response, generated, inv, overlap, composeVars, apiKey, uiVars >>

\* services: the generateContent call of describeImageWithFallback throws
DescribeThrows ==
    /\ pc = "vision"
    /\ variant = "svcRetry"
    /\ \E e \in BackendErrors :
          VisionAdvance(e, IF e.cls = "Error" THEN MessageOf(e) ELSE Msg(e.markers, "Json"),
                        RetryQuota(variant, e))
    /\ UNCHANGED << attempts, retries, initialDelay >>
    /\ UNCHANGED << variant, entry, response, generated, inv, overlap, composeVars, apiKey, uiVars >>

\* part_001: the generateContent call of the description step returns;
\* imageDescription is the first text or ""
P1DescribeReturns ==
    /\ pc = "vision"
    /\ variant = "p1Retry"
    /\ \E text \in VisionTexts : DescriptionObtained(text, vi)
    /\ UNCHANGED << attempts, retries, initialDelay >>
    /\ UNCHANGED << variant, entry, response, generated, inv, overlap, composeVars, apiKey, uiVars >>

\* part_001: the generateContent call of the description step throws
P1DescribeThrows ==
    /\ pc = "vision"
    /\ variant = "p1Retry"
    /\ \E e \in BackendErrors : RetryCatch(e)
    /\ descLog' = Append(descLog, DescFailed)
    /\ Net(1, 0, 0)
    /\ UNCHANGED << vi, lastError, passOrder, lastFailure, imageDescription,
                    descModel, synthLog, passStartWaits, sawQuota >>
    /\ UNCHANGED << attempts, retries, initialDelay >>
    /\ UNCHANGED << variant, entry, response, generated, inv, overlap, composeVars, apiKey, uiVars >>

\* The generateImages call returns
SynthReturns ==
    /\ pc = "synth"
    /\ variant \in RetryVariants
    /\ \E images \in ImagesResponses :
          /\ generated' = Received(images)
          /\ LET o == ExtractImageBytes(images)
             IN IF o.err = NoError THEN Return(o.data) ELSE RetryCatch(o.err)
    /\ Net(1, 0, 0)
    /\ OperationEnds
    /\ UNCHANGED << attempts, retries, initialDelay >>
    /\ UNCHANGED << variant, entry, response, inv, overlap, composeVars, apiKey, uiVars >>

\* The generateImages call throws
SynthThrows ==
    /\ pc = "synth"
    /\ variant \in RetryVariants
    /\ \E e \in BackendErrors : RetryCatch(e)
    /\ Net(1, 0, 0)
    /\ OperationEnds
    /\ UNCHANGED << attempts, retries, initialDelay >>
    /\ UNCHANGED << variant, entry, response, generated, inv, overlap, composeVars, apiKey, uiVars >>

----------------------------------------------------------------------------

Next ==
    \/ LoopStart
    \/ LoopReturns
    \/ LoopThrows
    \/ LoopWaitDone
    \/ DirectStart
    \/ DirectReturns
    \/ DirectThrows
    \/ RetryStart
    \/ RetryWaitDone
    \/ DescribeReturns
    \/ DescribeThrows
    \/ P1DescribeReturns
    \/ P1DescribeThrows
    \/ SynthReturns
    \/ SynthThrows

Spec == Init /\ [][Next]_vars

\* if (!process.env.API_KEY) throw, first statement of both entries of the
\* loop revision of the services
KeyCheckThrows ==
    /\ pc = "idle"
    /\ variant = "svcLoop"
    /\ ~apiKey
    /\ pc' = "failed"
    /\ thrown' = MissingKey
    /\ UNCHANGED << attempts, retries, initialDelay, delay, waits, caught, result, quotaFailures >>
    /\ UNCHANGED << variant, entry, response, generated, inv, overlap, composeVars, apiKey, uiVars >>
    /\ UNCHANGED netVars
    /\ UNCHANGED visionVars

\* A module evaluated with or without the key, then an invocation
InitKey ==
    /\ InitService
    /\ userPrompt = << >>
    /\ aspectRatio = DefaultAspectRatio
    /\ apiKey \in BOOLEAN

NextKey ==
    \/ Next
    \/ KeyCheckThrows

SpecKey == InitKey /\ [][NextKey]_vars

\* Every backend call and every wait completes: the promise an invocation
\* awaits is settled and its continuation runs
SpecFair == Spec /\ WF_vars(Next)

----------------------------------------------------------------------------
(* Two concurrent invocations of generateImageWithText, in the loop revision *)
(* and in the withRetry revision of services/geminiService.ts.  Each step   *)
(* is one invocation running from one await to the next; the event loop     *)
(* interleaves the steps of the two in any order.                           *)

PairVariants == {"svcLoop", "svcRetry"}

\* What the backend throws, returns to generateContent and returns to
\* generateImages in these runs
PairErrors == {MkError("Error", {"429"}, "Backend"), MkError("Error", {}, "Backend"),
               MkError("Object", {"429"}, "Backend")}
PairResponses == {[shape |-> "parts", parts |-> << MkPart("inline", "img1", "image/png", "") >>,
                   finishReason |-> "STOP"],
                  [shape |-> "parts", parts |-> << >>, finishReason |-> "STOP"]}
PairImages == {<< "png1" >>, << >>}

\* The variables of the single-invocation runs, unused here
soloVars == << pc, attempts, retries, initialDelay, delay, calls, inflight, response,
               waits, caught, thrown, result, vi, lastError, passOrder, lastFailure,
               imageDescription, descLog, descModel, synthLog, passStartWaits,
               quotaFailures, sawQuota, generated >>

InitPair ==
    /\ Init
    /\ variant \in PairVariants
    /\ entry = "text"

\* Variation of Update: `attempts` is one variable of the module, shared by
\* the invocations
UpdateSharedAttempts(i, rec) ==
    [j \in Invocations |->
        IF j = i THEN rec ELSE [inv[j] EXCEPT !.attempts = rec.attempts]]

\* Invocation i writes its locals (attempts, delay, ... are declared inside
\* the function body, retries and initialDelay are parameters)
Update(i, rec) == [inv EXCEPT ![i] = rec]

\* Steps taken by others during the wait in progress of each invocation,
\* after a step of invocation i
OverlapAfter(i) ==
    [j \in Invocations |->
        IF j = i THEN 0
        ELSE IF inv[j].pc = "waiting" THEN Min(overlap[j] + 1, MaxOverlap)
        ELSE overlap[j]]

\* Invocation i moves to one of the locals in recs
PairStep(i, recs) ==
    /\ \E rec \in recs : inv' = Update(i, rec)
    /\ overlap' = OverlapAfter(i)
    /\ UNCHANGED << variant, entry, soloVars, composeVars, apiKey, uiVars >>

\* Locals of invocation i after its catch block caught e
PairCatch(i, e) ==
    LET l == inv[i]
    IN IF variant \in LoopVariants
       THEN IF shouldRetry(e, l.attempts, variant)
            THEN {[l EXCEPT !.pc = "waiting", !.caught = e, !.delay = d, !.waits = @ + 1] :
                     d \in LoopDelays(variant, l.attempts)}
            ELSE {[l EXCEPT !.pc = "failed", !.caught = e, !.thrown = LoopClassify(variant, e)]}
       ELSE IF l.retries > 0 /\ RetryQuota(variant, e)
            THEN {[l EXCEPT !.pc = "waiting", !.caught = e, !.delay = l.initialDelay,
                            !.waits = @ + 1]}
            ELSE {[l EXCEPT !.pc = "failed", !.caught = e, !.thrown = e]}

\* Invocation i starts and issues its first call
PairStart(i) ==
    /\ inv[i].pc = "idle"
    /\ PairStep(i, {IF variant \in LoopVariants
                    THEN Locals("calling", 1, 0, 0)
                    ELSE Locals("calling", 1, DefaultRetries(variant),
                                DefaultInitialDelay(variant))})

\* The call of invocation i returns a response
PairReturns(i) ==
    /\ inv[i].pc = "calling"
    /\ \E o \in (IF variant \in LoopVariants
                 THEN {LoopExtract(resp) : resp \in PairResponses}
                 ELSE {ExtractImageBytes(images) : images \in PairImages}) :
          PairStep(i, IF o.err = NoError
                      THEN {[inv[i] EXCEPT !.pc = "done", !.result = o.data]}
                      ELSE PairCatch(i, o.err))

\* The call of invocation i throws
PairThrows(i) ==
    /\ inv[i].pc = "calling"
    /\ \E e \in PairErrors : PairStep(i, PairCatch(i, e))

\* The wait of invocation i completes: it issues its next call
PairWaitDone(i) ==
    /\ inv[i].pc = "waiting"
    /\ PairStep(i, {IF variant \in LoopVariants
                    THEN [inv[i] EXCEPT !.pc = "calling", !.attempts = @ + 1,
                                        !.caught = NoError]
                    ELSE [inv[i] EXCEPT !.pc = "calling", !.attempts = @ + 1,
                                        !.caught = NoError, !.retries = NextRetries(@),
                                        !.initialDelay = NextInitialDelay(variant, @)]})

NextPair ==
    \/ \E i \in Invocations : PairStart(i)
    \/ \E i \in Invocations : PairReturns(i)
    \/ \E i \in Invocations : PairThrows(i)
    \/ \E i \in Invocations : PairWaitDone(i)

SpecPair == InitPair /\ [][NextPair]_vars

----------------------------------------------------------------------------
(* Prompt composition.  A text is a sequence of segments: the fixed pieces  *)
(* of the template literal and the values inserted between them (the words  *)
(* of the user prompt, the aspect ratio, the description).                  *)

\* Text prompt of generateImageWithText in the revisions that call
\* generateContent
enhancedPrompt(v, prompt, ratio) ==
    IF v = "svcLoop"
    THEN << "Create a high quality YouTube Thumbnail. Aspect Ratio: ", ratio,
            ". Description: " >> \o prompt \o << ". Vivid colors, 4k resolution." >>
    ELSE IF v = "p2Loop"
    THEN prompt \o << ". The image should be in ", ratio,
                      " aspect ratio. High quality YouTube Thumbnail, vivid colors." >>
    ELSE << "Create a high-quality youtube thumbnail: " >> \o prompt
            \o << ". Aspect Ratio: ", ratio, ". Photorealistic, 8k, detailed." >>

\* Text part of generateImageWithReference in the revisions that call
\* generateContent
editingPrompt(v, prompt, ratio) ==
    IF v = "svcLoop"
    THEN << "Create a YouTube Thumbnail. Reference Image provided. User Instructions: " >>
            \o prompt
            \o << " Output Aspect Ratio: ", ratio,
                  " Style: High quality, vivid, clickbait style." >>
    ELSE IF v = "p2Loop"
    THEN << "Task: Create a high-quality YouTube Thumbnail based on the provided reference image. User Instructions: " >>
            \o prompt
            \o << " Target Aspect Ratio: ", ratio,
                  " IMPORTANT: - Preserve the main subject/person ... catchy YouTube style." >>
    ELSE << "STRICT INSTRUCTION: Follow the user prompt applied to the reference image. User Prompt: " >>
            \o prompt
            \o << " Output Aspect Ratio: ", ratio,
                  " Ensure high quality and photorealism." >>

\* finalPrompt of the describe-then-create flow of the withRetry revisions
finalPromptText(description, prompt) ==
    << "Create a YouTube thumbnail. Reference Style/Content: ", description,
       " User Changes/Instruction: " >> \o prompt
       \o << " Ensure high quality, photorealistic, 8k." >>

\* The request generateImageWithText sends
TextRequest(v, prompt, ratio) ==
    IF v \in RetryVariants
    THEN MkRequest(prompt, ratio)
    ELSE MkRequest(enhancedPrompt(v, prompt, ratio), "none")

\* The request generateImageWithReference sends to the image-producing call
ReferenceRequest(v, description, prompt, ratio) ==
    IF v \in RetryVariants
    THEN MkRequest(finalPromptText(description, prompt), ratio)
    ELSE MkRequest(editingPrompt(v, prompt, ratio), "none")

\* An invocation with any prompt and any aspect ratio
InitCompose ==
    /\ InitService
    /\ apiKey = TRUE
    /\ userPrompt \in UserPrompts
    /\ aspectRatio \in AspectRatios

\* generateImageWithText composes its request
ComposeText ==
    /\ entry = "text"
    /\ ~request.sent
    /\ request' = TextRequest(variant, userPrompt, aspectRatio)
    /\ UNCHANGED << variant, entry, soloVars, inv, overlap, userPrompt, aspectRatio, apiKey, uiVars >>

\* generateImageWithReference composes the request of its image-producing
\* call (in the withRetry revisions, with the description obtained)
ComposeReference ==
    /\ entry = "reference"
    /\ ~request.sent
    /\ \E description \in (IF variant = "svcRetry" THEN VisionTexts \ {""} ELSE VisionTexts) :
          request' = ReferenceRequest(variant, description, userPrompt, aspectRatio)
    /\ UNCHANGED << variant, entry, soloVars, inv, overlap, userPrompt, aspectRatio, apiKey, uiVars >>

NextCompose ==
    \/ ComposeText
    \/ ComposeReference

SpecCompose == InitCompose /\ [][NextCompose]_vars

----------------------------------------------------------------------------
(* App component (src/unnamed/part_000).  The service call it awaits is the *)
(* environment here: it returns the bytes of an image or throws.            *)

isEditing == generatedImage # NullUrl

\* The state of the service invocations, which the page does not touch
serviceVars == << variant, entry, soloVars, inv, overlap, composeVars, apiKey >>

\* The page with the service revision it imports
InitUI ==
    /\ Init
    /\ variant = "svcRetry"
    /\ entry = "text"

\* onChange of the prompt field
SetPrompt ==
    /\ ~isLoading
    /\ \E p \in TypedPrompts : p # uiPrompt /\ uiPrompt' = p
    /\ UNCHANGED << uiAspectRatio, generatedImage, originalFile, crops, referenceImage,
                    isLoading, error, history, uiCall, clock >>
    /\ UNCHANGED serviceVars

\* A ratio button; the effect reprocesses the chosen file for the new ratio
SetAspectRatio ==
    /\ ~isLoading
    /\ \E r \in UiRatios :
          /\ r # uiAspectRatio
          /\ uiAspectRatio' = r
          /\ crops' = IF originalFile THEN crops \cup {r} ELSE crops
    /\ UNCHANGED << uiPrompt, generatedImage, originalFile, referenceImage,
                    isLoading, error, history, uiCall, clock >>
    /\ UNCHANGED serviceVars

\* A file is chosen; the effect starts processFileWithRatio
handleFileChange ==
    /\ ~isLoading
    /\ ~referenceImage.set
    /\ originalFile' = TRUE
    /\ crops' = crops \cup {uiAspectRatio}
    /\ UNCHANGED << uiPrompt, uiAspectRatio, generatedImage, referenceImage,
                    isLoading, error, history, uiCall, clock >>
    /\ UNCHANGED serviceVars

\* img.onload of processFileWithRatio: the crop is stored
CropDone ==
    /\ \E r \in crops :
          /\ crops' = crops \ {r}
          /\ referenceImage' = Crop(r)
    /\ UNCHANGED << uiPrompt, uiAspectRatio, generatedImage, originalFile,
                    isLoading, error, history, uiCall, clock >>
    /\ UNCHANGED serviceVars

handleRemoveReferenceImage ==
    /\ referenceImage.set
    /\ referenceImage' = NoImage
    /\ originalFile' = FALSE
    /\ UNCHANGED << uiPrompt, uiAspectRatio, generatedImage, crops,
                    isLoading, error, history, uiCall, clock >>
    /\ UNCHANGED serviceVars

handleStartOver ==
    /\ isEditing
    /\ ~isLoading
    /\ generatedImage' = NullUrl
    /\ referenceImage' = NoImage
    /\ originalFile' = FALSE
    /\ uiPrompt' = ""
    /\ error' = NullError
    /\ UNCHANGED << uiAspectRatio, crops, isLoading, history, uiCall, clock >>
    /\ UNCHANGED serviceVars

\* setAspectRatio(item.aspectRatio)
RestoredRatio(item) == item.aspectRatio

\* Click on an item of the history
handleRestoreHistory ==
    /\ \E k \in 1..Len(history) :
          /\ generatedImage' = history[k].imageUrl
          /\ uiPrompt' = history[k].prompt
          /\ uiAspectRatio' = RestoredRatio(history[k])
    /\ error' = NullError
    /\ referenceImage' = NoImage
    /\ originalFile' = FALSE
    /\ UNCHANGED << crops, isLoading, history, uiCall, clock >>
    /\ UNCHANGED serviceVars

\* Variation of imagesForApi: the generated image is left out
imagesForApiReferenceOnly(gen, ref) ==
    IF ref.set THEN << ref >> ELSE << >>

\* imagesForApi of the editing branch
imagesForApi(gen, ref) ==
    << Image(getBase64FromDataUrl(gen), "image/png") >>
        \o (IF ref.set THEN << ref >> ELSE << >>)

\* The service call of handleGenerateClick
ServiceCall(currentPrompt) ==
    IF isEditing
    THEN MkCall("generateImageWithReference", currentPrompt,
                imagesForApi(generatedImage, referenceImage), uiAspectRatio)
    ELSE IF referenceImage.set
    THEN MkCall("generateImageWithReference", currentPrompt, << referenceImage >>,
                uiAspectRatio)
    ELSE MkCall("generateImageWithText", currentPrompt, << >>, uiAspectRatio)

\* handleGenerateClick up to its await
handleGenerateClick ==
    /\ ~isLoading
    /\ IF trim(uiPrompt) = ""
       THEN /\ error' = "Por favor, insira uma descricao"
            /\ UNCHANGED << isLoading, uiCall >>
       ELSE /\ isLoading' = TRUE
            /\ error' = NullError
            /\ uiCall' = ServiceCall(trim(uiPrompt))
    /\ UNCHANGED << uiPrompt, uiAspectRatio, generatedImage, originalFile, crops,
                    referenceImage, history, clock >>
    /\ UNCHANGED serviceVars

\* Variation of AddToHistory: the new item is put at the end
AddToHistoryAtEnd(item, prev) ==
    SubSeq(prev \o << item >>, 1, Min(HistoryMax, Len(prev) + 1))

\* Variation of AddToHistory: the list is cut after seven items
AddToHistorySeven(item, prev) ==
    SubSeq(<< item >> \o prev, 1, Min(HistoryMax + 1, Len(prev) + 1))

\* [newHistoryItem, ...prev].slice(0, 6)
AddToHistory(item, prev) ==
    SubSeq(<< item >> \o prev, 1, Min(HistoryMax, Len(prev) + 1))

\* newHistoryItem
HistoryItem(now, imageUrl, p, ratio) ==
    [id |-> now, imageUrl |-> imageUrl, prompt |-> p, aspectRatio |-> ratio,
     timestamp |-> now]

\* Variation of GenerateSucceeds: the item takes the prompt and the aspect
\* ratio the page shows when the call returns
GenerateSucceedsCurrentState ==
    /\ uiCall.fn # "none"
    /\ clock < MaxGenerations
    /\ clock' = clock + 1
    /\ generatedImage' = DataUrl(Payload(clock'))
    /\ history' = AddToHistory(HistoryItem(clock', generatedImage', trim(uiPrompt),
                                           uiAspectRatio), history)
    /\ referenceImage' = NoImage
    /\ originalFile' = FALSE
    /\ isLoading' = FALSE
    /\ uiCall' = NoCall
    /\ UNCHANGED << uiPrompt, uiAspectRatio, crops, error >>
    /\ UNCHANGED serviceVars

\* The awaited call returns: handleGenerateClick after its await
GenerateSucceeds ==
    /\ uiCall.fn # "none"
    /\ clock < MaxGenerations
    /\ clock' = clock + 1
    /\ generatedImage' = DataUrl(Payload(clock'))
    /\ history' = AddToHistory(HistoryItem(clock', generatedImage', uiCall.prompt,
                                           uiCall.aspectRatio), history)
    /\ referenceImage' = NoImage
    /\ originalFile' = FALSE
    /\ isLoading' = FALSE
    /\ uiCall' = NoCall
    /\ UNCHANGED << uiPrompt, uiAspectRatio, crops, error >>
    /\ UNCHANGED serviceVars

\* Variation of GenerateFails: the catch block without the finally block
GenerateFailsNoFinally ==
    /\ uiCall.fn # "none"
    /\ error' = "service error"
    /\ uiCall' = NoCall
    /\ UNCHANGED << uiPrompt, uiAspectRatio, generatedImage, originalFile, crops,
                    referenceImage, isLoading, history, clock >>
    /\ UNCHANGED serviceVars

\* The awaited call throws: catch and finally of handleGenerateClick
GenerateFails ==
    /\ uiCall.fn # "none"
    /\ error' = "service error"
    /\ isLoading' = FALSE
    /\ uiCall' = NoCall
    /\ UNCHANGED << uiPrompt, uiAspectRatio, generatedImage, originalFile, crops,
                    referenceImage, history, clock >>
    /\ UNCHANGED serviceVars

NextUI ==
    \/ SetPrompt
    \/ SetAspectRatio
    \/ handleFileChange
    \/ CropDone
    \/ handleRemoveReferenceImage
    \/ handleStartOver
    \/ handleRestoreHistory
    \/ handleGenerateClick
    \/ GenerateSucceeds
    \/ GenerateFails

SpecUI == InitUI /\ [][NextUI]_vars

----------------------------------------------------------------------------
(* Properties *)

Texts == {"t1", "t2"}

QuotaMarkersLoop == {"429", "RESOURCE_EXHAUSTED", "quota"}
QuotaMarkersRetry == {"429", "RESOURCE_EXHAUSTED", "Quota"}
NotFoundMarkers == {"404", "not found"}

\* C1: bounded retry of the loop revisions.  No execution issues more than
\* maxAttempts backend calls (5 in services, 10 in part_002); an invocation
\* that gives up on a quota error, which is what happens when every call
\* fails with a quota error, has issued exactly maxAttempts calls and throws
\* the quota-classified error; while it waits for a retry it has issued
\* fewer than maxAttempts calls.
C1_BoundedRetry ==
    variant \in LoopVariants =>
        LET bound == IF variant = "svcLoop" THEN MaxAttemptsSvc ELSE MaxAttemptsP2
        IN /\ calls <= bound
           /\ attempts = calls
           /\ (pc = "waiting" => calls < bound)
           /\ (pc = "failed" /\ caught.cls = "Error" /\ caught.markers \cap QuotaMarkersLoop # {}
                  => calls = bound /\ thrown.text = "QuotaExceeded")

\* C1 witness: part_002 gave up after ten quota failures
C1_Witness ==
    /\ variant = "p2Loop"
    /\ pc = "failed"
    /\ calls = MaxAttemptsP2
    /\ waits = MaxAttemptsP2 - 1
    /\ thrown.text = "QuotaExceeded"

\* The failure e is one the running revision classifies as quota/rate-limit
C2_QuotaClassified(e) ==
    IF variant \in LoopVariants
    THEN e.cls = "Error" /\ e.markers \cap QuotaMarkersLoop # {}
    ELSE IF variant = "svcRetry"
    THEN e.markers \cap QuotaMarkersRetry # {}
    ELSE e.cls = "Error" /\ e.markers \cap QuotaMarkersRetry # {}

\* Step condition of C2_RetryOnlyOnQuota
C2_RetryOnlyOnQuotaStep ==
    variant \in (LoopVariants \cup RetryVariants) =>
          /\ (waits' > waits => C2_QuotaClassified(caught'))
          /\ (attempts' > attempts /\ attempts >= 1
                 => pc = "waiting" /\ C2_QuotaClassified(caught))
          /\ (caught = NoError /\ caught' # NoError /\ ~C2_QuotaClassified(caught')
                 => /\ pc' = "failed"
                    /\ waits' = waits
                    /\ calls' = calls
                    /\ inflight' = 0)
          /\ (pc = "failed" => calls' = calls /\ waits' = waits /\ pc' = "failed")

\* C2: in the retry loops (loop revisions and withRetry), a wait is executed
\* and a new attempt is issued only after a failure classified as quota;
\* a failed attempt whose error is not so classified (an empty or malformed
\* response included) ends the invocation in that step: no wait, no further
\* backend call, and nothing happens after the failure.
C2_RetryOnlyOnQuota == [][C2_RetryOnlyOnQuotaStep]_vars

\* C2 witness: after two quota failures and two waits, the third attempt
\* got a response without image data and the invocation failed at once
C2_Witness ==
    /\ variant \in LoopVariants
    /\ pc = "failed"
    /\ caught.text = "Empty"
    /\ calls = 3
    /\ waits = 2

\* C3: (services loop revision) whenever the caught error carries a
\* 'blocked' or 'safetySetting' marker, the invocation has ended with the
\* policy-block error: it is not waiting for a retry, whatever other
\* markers the message carries and whatever the attempt number.
C3_PolicyBlockNeverRetried ==
    (variant = "svcLoop" /\ caught.cls = "Error"
        /\ caught.markers \cap {"blocked", "safetySetting"} # {})
    => (pc = "failed" /\ thrown.text = "PolicyBlocked")

\* The first candidate of resp has no image part
ZeroImageParts(resp) ==
    \A i \in 1..Len(resp.parts) :
        ~(resp.parts[i].kind = "inline" /\ resp.parts[i].mime \in ImageMimes)

\* C4: (part_001 direct revision) for every response without image part whose
\* finish status is SAFETY, BLOCK or PROHIBITED_CONTENT, the normaliser
\* fails with the policy-block error.
C4_SafetyStatusIsPolicyBlock ==
    (variant = "p1Direct" /\ response # NoResponse /\ pc \in {"done", "failed"}
        /\ ZeroImageParts(response) /\ response.finishReason \in {"SAFETY", "BLOCK", "PROHIBITED_CONTENT"})
    => (pc = "failed" /\ caught.text = "PolicyBlocked")

\* Number of generateImages calls the reference flow issued in operation
\* invocations 1..a
SynthCallsUpTo(a) == Cardinality({k \in 1..Len(synthLog) : synthLog[k].attempt <= a})

\* C5 as stated: if the description step of attempt 1 failed and that of
\* attempt 2 succeeded, generateImages is issued exactly once in the whole
\* invocation, with the description of attempt 2.
C5_SynthesisOnceInInvocation ==
    (variant \in RetryVariants /\ entry = "reference" /\ Len(descLog) >= 2
        /\ descLog[1] = DescFailed /\ descLog[2] # DescFailed)
    => (Len(synthLog) = 1 /\ synthLog[1] = [attempt |-> 2, desc |-> descLog[2]])

\* C5 amended: if the description step of attempt 1 failed (with a quota
\* error, or there is no attempt 2) and that of attempt 2 succeeded,
\* generateImages is issued exactly once in attempts 1 and 2, by attempt 2
\* and with the description obtained in attempt 2; every generateImages
\* call embeds the description obtained in its own attempt, and an attempt
\* issues at most one generateImages call.
C5_SynthesisOncePerAttempt ==
    (variant \in RetryVariants /\ entry = "reference") =>
        /\ \A k \in 1..Len(synthLog) :
              /\ synthLog[k].attempt \in 1..Len(descLog)
              /\ descLog[synthLog[k].attempt] # DescFailed
              /\ synthLog[k].desc = descLog[synthLog[k].attempt]
        /\ \A j, k \in 1..Len(synthLog) : j < k => synthLog[j].attempt < synthLog[k].attempt
        /\ (Len(descLog) >= 2 /\ descLog[1] = DescFailed /\ descLog[2] # DescFailed
               => /\ SynthCallsUpTo(2) = 1
                  /\ synthLog[1] = [attempt |-> 2, desc |-> descLog[2]])

\* C5 witness: attempt 1 failed in its description step, attempt 2 obtained
\* "t2" and its generateImages call returned the image
C5_Witness ==
    /\ variant = "svcRetry"
    /\ entry = "reference"
    /\ pc = "done"
    /\ descLog = << DescFailed, "t2" >>
    /\ synthLog = << [attempt |-> 2, desc |-> "t2"] >>
    /\ waits = 1

\* Step condition of C6_RetriedEndToEnd
C6_RetriedEndToEndStep ==
    (variant \in RetryVariants /\ entry = "reference") =>
          /\ (pc = "waiting" /\ pc' # "waiting"
                 => /\ pc' = "vision"
                    /\ attempts' = attempts + 1
                    /\ vi' = 1
                    /\ passOrder' = << 1 >>
                    /\ imageDescription' = ""
                    /\ descModel' = 0
                    /\ calls' = calls)
          /\ (calls' > calls
                 => /\ pc = "vision"
                    /\ pc' = "synth"
                    /\ attempts' = attempts
                    /\ Len(descLog') = attempts
                    /\ descLog'[attempts] # DescFailed
                    /\ descLog'[attempts] = imageDescription'
                    /\ synthLog'[Len(synthLog')].attempt = attempts)

\* C6: the reference operation of the withRetry revisions is retried as one
\* unit.  The step that ends a wait starts the description step anew (first
\* vision model, no description held); a generateImages call is issued only
\* by the step in which the description call of the same attempt returned.
C6_RetriedEndToEnd == [][C6_RetriedEndToEndStep]_vars

\* C6 witness: the generateImages call of attempt 1 failed with a quota
\* error, and attempt 2 described the image again before its own call
C6_Witness ==
    /\ variant \in RetryVariants
    /\ entry = "reference"
    /\ pc = "synth"
    /\ attempts = 2
    /\ Len(descLog) = 2
    /\ descLog[1] # DescFailed
    /\ Len(synthLog) = 2

\* C7: describeImageWithFallback invokes the vision models in list order,
\* each at most once per pass (the models invoked so far are 1, 2, ..., n
\* with n at most the length of the list), one call at a time, and the
\* model that yielded the description is the last one invoked: no call is
\* in flight or issued in the pass once a description is held.
C7_CandidatesInOrder ==
    variant = "svcRetry" =>
        /\ Len(passOrder) <= Len(visionModels)
        /\ \A i \in 1..Len(passOrder) : passOrder[i] = i
        /\ inflight <= 1
        /\ (pc = "vision" => /\ vi = Len(passOrder)
                             /\ inflight = 1
                             /\ imageDescription = ""
                             /\ descModel = 0)
        /\ (descModel # 0 => /\ descModel = Len(passOrder)
                             /\ imageDescription \in Texts
                             /\ pc = "synth")

\* C7 witness: the third model yielded the description after two failed
C7_Witness ==
    /\ variant = "svcRetry"
    /\ pc = "synth"
    /\ descModel = 3
    /\ passOrder = << 1, 2, 3 >>

\* The error e is neither a not-found/unavailable nor a quota/rate-limit error
C8_OtherError(e) ==
    /\ e # NoError
    /\ e.markers \cap (NotFoundMarkers \cup QuotaMarkersRetry \cup QuotaMarkersLoop) = {}

C8_EveryErrorAdvancesStep ==
    (variant = "svcRetry" /\ pc = "vision" /\ pc' # "synth"
            /\ lastFailure'.text # "NoText")
        => /\ lastError' \in BackendErrors
           /\ IF vi < Len(visionModels)
              THEN /\ pc' = "vision"
                   /\ vi' = vi + 1
                   /\ passOrder' = Append(passOrder, vi + 1)
                   /\ caught' = NoError
                   /\ thrown' = NoError
              ELSE /\ pc' \in {"waiting", "failed"}
                   /\ caught'.text = "Aggregate"
                   /\ caught'.detail = MessageOf(lastError')
                   /\ (pc' = "failed" => thrown' = caught')

C9_NotFoundSkipsWithoutDelay ==
    (variant = "svcRetry" /\ passOrder = << 1, 2 >> /\ descModel # 0
        /\ lastError.markers \cap NotFoundMarkers # {})
    => /\ descModel = 2
       /\ pc = "synth"
       /\ imageDescription \in Texts
       /\ descLog[attempts] = imageDescription
       /\ waits = passStartWaits
       /\ delay = IF waits = 0 THEN 0 ELSE InitialDelaySvc

\* C9 witness: model 1 failed with a 404 error and model 2 gave "t1" in the
\* first attempt
C9_Witness ==
    /\ variant = "svcRetry"
    /\ attempts = 1
    /\ passOrder = << 1, 2 >>
    /\ descModel = 2
    /\ lastError.markers = {"404"}
    /\ imageDescription = "t1"
    /\ waits = 0

\* C10: whenever every vision model was tried without a description, the
\* aggregate error embeds the detail of the last failure, also when models
\* returned a response without text.
C10_AggregateCarriesLastFailure ==
    (variant = "svcRetry" /\ caught.text = "Aggregate")
    => (caught.detail = lastFailure /\ caught.detail # UndefinedMsg)

\* C11: when describeImageWithFallback ended without a description and some
\* vision model of the pass had failed with a quota error, withRetry, having
\* retries left, waits and runs the reference operation again: the
\* invocation does not fail.
C11_QuotaSeenIsRetried ==
    (variant = "svcRetry" /\ entry = "reference" /\ caught.text = "Aggregate"
        /\ sawQuota /\ retries > 0)
    => pc = "waiting"

\* C12: whenever an invocation of generateImageWithText or
\* generateImageWithReference has failed on an error thrown by the backend,
\* the error that leaves it is another, newly created error: it is never the
\* backend's error object itself, and never a value that is no Error.
C12_NoRawErrorLeaves ==
    (pc = "failed" /\ caught \in BackendErrors)
    => (thrown # caught /\ thrown.cls = "Error" /\ thrown.text # "Backend")

\* Backend calls an invocation of revision v may issue before it surfaces the
\* quota error: maxAttempts in the loop revisions, the single call of the
\* direct revision of part_001
C13_CallBound(v) == IF v \in LoopVariants THEN maxAttempts(v) ELSE 1

\* C13: (loop revisions and direct revision of part_001, the revisions that
\* build a quota-exceeded error) whenever the quota-exceeded error has
\* been thrown to the caller, the invocation issued the full bounded number of
\* backend calls, every one of them failed with an error classified as quota,
\* and a wait was executed between each two of them.
C13_QuotaOnlyAfterExhaustion ==
    thrown.text = "QuotaExceeded" =>
        /\ variant \in LoopVariants \cup {"p1Direct"}
        /\ pc = "failed"
        /\ calls = C13_CallBound(variant)
        /\ quotaFailures = calls
        /\ waits = calls - 1
        /\ inflight = 0

\* C13 witness: the services loop revision surfaced the quota error after
\* its five calls all failed with a quota error
C13_Witness ==
    /\ variant = "svcLoop"
    /\ thrown.text = "QuotaExceeded"
    /\ calls = MaxAttemptsSvc
    /\ quotaFailures = MaxAttemptsSvc

\* C14: within one invocation at most one backend call is in flight.  While
\* the invocation awaits a call (the image call of a loop, a vision model's
\* call, the generateImages call) exactly that one call is in flight; while
\* it waits before a retry, and before it starts and after it ends, none is.
C14_OneCallInFlight ==
    /\ inflight \in {0, 1}
    /\ (pc \in {"calling", "vision", "synth"} => inflight = 1)
    /\ (pc \in {"idle", "waiting", "done", "failed"} => inflight = 0)

\* C14 witness: in the second attempt of the reference flow, after a
\* generateImages call and a wait, the third vision model is being called
C14_Witness ==
    /\ variant = "svcRetry"
    /\ entry = "reference"
    /\ attempts = 2
    /\ waits = 1
    /\ Len(synthLog) = 1
    /\ pc = "vision"
    /\ vi = 3
    /\ inflight = 1

\* Invocation j is able to take its next step
C15_CanStep(j) ==
    ENABLED (PairStart(j) \/ PairReturns(j) \/ PairThrows(j) \/ PairWaitDone(j))

\* The attempts of invocation i follow from its own failures alone
C15_OwnCounter(i) ==
    LET l == inv[i]
    IN /\ (l.pc # "idle"
              => l.waits = IF l.pc = "waiting" THEN l.attempts ELSE l.attempts - 1)
       /\ IF variant \in LoopVariants
          THEN /\ l.attempts <= maxAttempts(variant)
               /\ (l.pc = "waiting" => l.attempts < maxAttempts(variant))
               /\ (l.pc = "failed" /\ isQuotaError(l.caught)
                      => l.attempts = maxAttempts(variant))
          ELSE /\ (l.pc # "idle" => l.attempts + l.retries = DefaultRetries(variant) + 1)
               /\ (l.pc = "failed" /\ RetryQuota(variant, l.caught) => l.retries = 0)

\* State condition of C15_Independent
C15_IndependentState ==
    \A i \in Invocations :
        /\ C15_OwnCounter(i)
        /\ (inv[i].pc \notin {"done", "failed"} => C15_CanStep(i))

\* Step condition of C15_Independent
C15_IndependentStep ==
    \A i \in Invocations :
        inv'[i] # inv[i] => \A j \in Invocations \ {i} : inv'[j] = inv[j]

\* C15: two concurrent invocations are independent.  A step of one
\* invocation (a failed attempt, the start or the end of a wait) leaves the
\* locals of the other unchanged; an invocation that has not ended can take
\* its next step whatever the other is doing, a wait included; and the
\* attempts of each are counted by itself: it waits only below its own
\* bound and gives up on a quota error exactly at its own bound.
C15_Independent == [](C15_IndependentState) /\ [][C15_IndependentStep]_vars

\* C15 witness: while invocation 1 is in the wait after its first attempt,
\* invocation 2 took steps and used up its five attempts
C15_Witness ==
    /\ variant = "svcLoop"
    /\ inv[1].pc = "waiting"
    /\ inv[1].attempts = 1
    /\ overlap[1] = MaxOverlap
    /\ inv[2].pc = "failed"
    /\ inv[2].attempts = MaxAttemptsSvc
    /\ inv[2].thrown.text = "QuotaExceeded"

C16_Terminal == pc \in {"done", "failed"}

\* Done carries a payload and no error, Failed an error and no payload; a
\* wait is in progress only below the retry bound, and the attempts never
\* exceed it.  (In the direct revision of part_001 the payload returned is
\* the data of the image part, whatever it is.)
C16_TerminalState ==
    /\ (pc = "done" => thrown = NoError /\ (variant # "p1Direct" => result # ""))
    /\ (pc = "failed" => thrown # NoError /\ result = "")
    /\ IF variant \in LoopVariants
       THEN /\ attempts <= maxAttempts(variant)
            /\ (pc = "waiting" => attempts < maxAttempts(variant))
       ELSE IF variant \in RetryVariants
       THEN /\ attempts <= DefaultRetries(variant) + 1
            /\ (pc = "waiting" => retries > 0)
            /\ (pc # "idle" => attempts + retries = DefaultRetries(variant) + 1)
       ELSE pc # "waiting" /\ attempts <= 1

\* Step condition of C16_Terminates: nothing happens after the end
C16_StaysTerminal ==
    C16_Terminal => (pc' = pc /\ result' = result /\ thrown' = thrown /\ waits' = waits)

\* C16: provided every backend call and every wait completes, every
\* invocation reaches Done or Failed and stays there: Done with a payload
\* and no error, Failed with an error and no payload.  Once the retry bound
\* is used up (attempts = maxAttempts in the loops, retries = 0 in withRetry)
\* no further wait is started.
C16_Terminates ==
    /\ <>C16_Terminal
    /\ []C16_TerminalState
    /\ [][C16_StaysTerminal]_vars

\* C16 witness: the reference flow of services used its two retries and
\* failed after the third operation invocation
C16_Witness ==
    /\ variant = "svcRetry"
    /\ entry = "reference"
    /\ pc = "failed"
    /\ retries = 0
    /\ attempts = RetriesSvc + 1
    /\ waits = RetriesSvc

\* Index of the first part of resp whose declared MIME type begins with
\* image/ (0: none)
C17_FirstImageIdx(resp) ==
    FirstIdx({k \in 1..Len(resp.parts) :
                 resp.parts[k].kind = "inline" /\ resp.parts[k].mime \in ImageMimes})

\* C17: (revisions that read a generateContent response for the image: the
\* loop revisions and the direct revision of part_001) whenever an invocation
\* returned, the response had a part with an image MIME type and the value
\* returned is the data of the first such part: an inline part of another
\* MIME type or a text part standing before it is not returned.
C17_FirstImagePartReturned ==
    (variant \in LoopVariants \cup {"p1Direct"} /\ pc = "done")
    => /\ C17_FirstImageIdx(response) # 0
       /\ result = response.parts[C17_FirstImageIdx(response)].data

\* Texts of the errors extractImageFromCandidate throws for a response
\* without usable content: no valid content, no image found
C18_NoContentTexts == {"NoContent", "NoImage"}

\* extractImageFromCandidate has handled a response without image part
C18_NoImageHandled ==
    /\ variant = "p1Direct"
    /\ pc \in {"done", "failed"}
    /\ response # NoResponse
    /\ ZeroImageParts(response)

\* C18: for every response without image part and without finish status on
\* its first candidate (a response without candidate included),
\* extractImageFromCandidate throws the no-content error: not the
\* policy-block error, not the interrupted error, and nothing else.
C18_NoStatusIsNoContent ==
    (C18_NoImageHandled /\ response.finishReason = "none")
    => (pc = "failed" /\ caught.text \in C18_NoContentTexts)

\* C19: for every response without image part, extractImageFromCandidate
\* throws the interrupted error carrying the finish status when that status
\* is present and is neither STOP nor a safety status, and the no-content
\* error when the status is STOP.
C19_OtherStatusIsInterrupted ==
    C18_NoImageHandled
    => /\ (response.finishReason \notin ({"none", "STOP"} \cup SafetyReasons)
              => /\ pc = "failed"
                 /\ caught.text = "Interrupted"
                 /\ caught.detail.text = response.finishReason)
       /\ (response.finishReason = "STOP"
              => pc = "failed" /\ caught.text \in C18_NoContentTexts)

\* C20: whenever a generateImages response was received, the invocation
\* returned an image if and only if some entry of the response, at whatever
\* position, has a non-empty byte payload, and what it returned is such a
\* payload; otherwise the attempt failed with the empty-response error.
C20_SuccessIffSomePayload ==
    (variant \in RetryVariants /\ generated.received)
    => LET payloads == {generated.images[k] : k \in 1..Len(generated.images)} \ {""}
       IN IF payloads # {}
          THEN pc = "done" /\ result \in payloads
          ELSE pc = "failed" /\ caught.text = "Empty"

\* C21: in the reference flow of the withRetry revisions, a description
\* response without text in its first part never leads to the synthesis
\* step: whenever generateImages has been called, the description embedded
\* in its prompt is a text a vision model returned, never an absent or empty
\* one.
C21_NoSynthesisWithoutDescription ==
    (variant \in RetryVariants /\ entry = "reference")
    => /\ \A k \in 1..Len(synthLog) : synthLog[k].desc \in Texts
       /\ (pc = "synth" => imageDescription \in Texts)

\* The response to the first backend call of the invocation was received
\* and consists of one non-empty image payload.  (Loop and direct
\* revisions: a generateContent response with one inline image part;
\* withRetry revisions: a generateImages response with one entry.)
C22_FirstCallGaveOnePayload ==
    /\ entry = "text"
    /\ attempts = 1
    /\ IF variant \in RetryVariants
       THEN /\ generated.received
            /\ Len(generated.images) = 1
            /\ generated.images[1] # ""
       ELSE /\ response.shape = "parts"
            /\ Len(response.parts) = 1
            /\ IsImagePart(response.parts[1])
            /\ response.parts[1].data # ""

C22_Payload ==
    IF variant \in RetryVariants THEN generated.images[1] ELSE response.parts[1].data

\* C22: when the first backend call of generateImageWithText returned one
\* non-empty image payload, the invocation has returned exactly the bytes
\* of that payload, after one backend call and without any wait.
C22_FirstCallSuccess ==
    C22_FirstCallGaveOnePayload
    => /\ pc = "done"
       /\ result = C22_Payload
       /\ thrown = NoError
       /\ calls = 1
       /\ waits = 0
       /\ inflight = 0

\* C22 witness: the loop revision of services returned "img2" from its
\* first call
C22_Witness ==
    /\ variant = "svcLoop"
    /\ C22_FirstCallGaveOnePayload
    /\ pc = "done"
    /\ result = "img2"
    /\ calls = 1

\* The text contains the sequence sub of segments, in order and adjacent
C23_Contains(text, sub) ==
    \E i \in 0..(Len(text) - Len(sub)) : SubSeq(text, i + 1, i + Len(sub)) = sub

\* Number of occurrences of the segment w in the text
C24_Count(text, w) == Cardinality({i \in 1..Len(text) : text[i] = w})

\* C23: for every user prompt and aspect ratio, the prompt text
\* generateImageWithReference sends to the image-producing call contains the
\* user's prompt literally and the aspect ratio.
C23_PromptCarriesInstructionAndRatio ==
    (entry = "reference" /\ request.sent)
    => /\ C23_Contains(request.text, userPrompt)
       /\ C24_Count(request.text, aspectRatio) >= 1

\* C24: for every aspect ratio of the enumeration and every user prompt, the
\* composed text-to-image prompt and the composed reference-edit prompt each
\* contain the aspect-ratio literal exactly once.
C24_RatioExactlyOnce ==
    request.sent => C24_Count(request.text, aspectRatio) = 1

\* The delays the wait that starts in this step can take
C25_PossibleDelays ==
    IF variant \in LoopVariants THEN LoopDelays(variant, attempts) ELSE {initialDelay}

\* The largest delay of a revision
C25_Cap(v) ==
    IF v = "svcLoop" THEN BackoffCap + 1000
    ELSE IF v = "p2Loop" THEN LinearStep * (MaxAttemptsP2 - 1)
    ELSE IF v = "svcRetry" THEN InitialDelaySvc
    ELSE InitialDelayP1 + DelayStepP1 * (RetriesP1 - 1)

\* A wait starts: not shorter than the wait before, not above the cap
C25_MonotoneCappedStep ==
    (waits' = waits + 1)
    => /\ (waits >= 1 => delay' >= delay)
       /\ delay' <= C25_Cap(variant)

\* A wait starts: its delay has a random component (another delay was
\* possible in the same step); in the loop revision of the services it is
\* min(10000, 2^k * 1000) plus a jitter below 1000
C25_JitterStep ==
    (waits' = waits + 1)
    => /\ \E d \in C25_PossibleDelays : d # delay'
       /\ variant = "svcLoop"
          => \E j \in 0..999 : delay' = Min(BackoffCap, (2 ^ attempts) * BackoffUnit) + j

\* Step condition of C25_DelayPolicy
C25_DelayPolicyStep == C25_MonotoneCappedStep /\ C25_JitterStep

\* C25: in every retry loop the delay before attempt k+1 is never smaller
\* than the delay before attempt k, never exceeds a fixed cap, and includes a
\* random jitter component.
C25_DelayPolicy == [][C25_DelayPolicyStep]_vars

\* C26: a missing API key is raised once, when the module is evaluated, and
\* not per call: with the key absent no invocation reaches a backend call
\* or a wait, and no invocation, with or without key, fails with the
\* missing-key error.
C26_MissingKeyAtInitialization ==
    /\ ~apiKey => /\ ModuleInitError(variant, apiKey) = MissingKey
                  /\ pc = "idle" /\ calls = 0 /\ inflight = 0 /\ waits = 0
                  /\ passOrder = << >>
    /\ thrown # MissingKey
    /\ apiKey => ModuleInitError(variant, apiKey) = NoError

\* The history holds at most six items, the most recent first
C27_Bounded ==
    /\ Len(history) <= HistoryMax
    /\ \A k \in 1..(Len(history) - 1) : history[k].timestamp > history[k + 1].timestamp

\* Step condition of C27_HistoryOrder: a successful generation puts its
\* item at the head, the others keep their order, and an item is dropped
\* only from the end of a list of six; no other step changes the list
C27_HistoryOrderStep ==
    /\ C27_Bounded'
    /\ IF clock' = clock + 1
       THEN /\ Len(history') = Min(Len(history) + 1, HistoryMax)
            /\ history'[1].timestamp = clock'
            /\ history'[1].imageUrl = generatedImage'
            /\ \A k \in 2..Len(history') : history'[k] = history[k - 1]
       ELSE history' = history

\* C27: after any sequence of generations, restores and resets the history
\* holds at most 6 items, most recent first; each successful generation puts
\* its item at the head, keeps the order of the others and drops only the
\* oldest item when the list would exceed 6.
C27_HistoryOrder == [][C27_HistoryOrderStep]_vars

\* A seventh generation has succeeded: the oldest item is gone
C27_Witness ==
    /\ clock = 7
    /\ Len(history) = HistoryMax
    /\ history[HistoryMax].timestamp = 2
    /\ history[1].aspectRatio # history[2].aspectRatio

\* Step condition of C28_CallArguments: the arguments of the call a step
\* makes, against the state the step started in
C28_CallArgumentsStep ==
    /\ uiAspectRatio' \in AspectRatios
    /\ uiCall'.fn # "none"
       => /\ uiCall'.aspectRatio \in AspectRatios
          /\ uiCall'.fn = "generateImageWithReference"
             => /\ Len(uiCall'.images) >= 1
                /\ \A k \in 1..Len(uiCall'.images) : uiCall'.images[k].set
    /\ (uiCall.fn = "none" /\ uiCall'.fn # "none" /\ isEditing)
       => /\ uiCall'.fn = "generateImageWithReference"
          /\ uiCall'.aspectRatio = uiAspectRatio
          /\ uiCall'.images[1] = Image(getBase64FromDataUrl(generatedImage), "image/png")
          /\ Len(uiCall'.images) = (IF referenceImage.set THEN 2 ELSE 1)
          /\ referenceImage.set => uiCall'.images[2] = referenceImage

\* C28: every call of generateImageWithReference the page makes passes at
\* least one image, in editing mode the generated image first and then the
\* reference image if there is one, and every aspect ratio passed to either
\* entry is one of the five of the enumeration.
C28_CallArguments == [][C28_CallArgumentsStep]_vars

\* An edit of a restored image with a reference image is in flight
C28_Witness ==
    /\ uiCall.fn = "generateImageWithReference"
    /\ Len(uiCall.images) = 2
    /\ clock >= 2
    /\ generatedImage = DataUrl(Payload(1))
    /\ uiCall.aspectRatio = "1:1"

\* The `retries` argument of the outermost call of withRetry
C29_Retries(v) == IF v = "svcRetry" THEN 2 ELSE 3

\* Frames of withRetry on the stack: one per recursive call made
C29_Depth == C29_Retries(variant) - retries + 1

\* C29: withRetry with retries = r invokes the operation at most r + 1
\* times (3 in the services file, 4 in part_001), exactly r + 1 times when
\* every invocation fails with a quota error, never nests deeper than r + 1
\* frames, and on exhaustion rethrows the error of the last invocation.
C29_BoundedRetry ==
    (variant \in RetryVariants /\ pc # "idle")
    => /\ attempts \in 1..(C29_Retries(variant) + 1)
       /\ C29_Depth \in 1..(C29_Retries(variant) + 1)
       /\ attempts = C29_Depth
       /\ (pc = "failed" /\ quotaFailures = attempts)
          => attempts = C29_Retries(variant) + 1
       /\ (pc = "failed" /\ retries = 0)
          => /\ thrown # NoError
             /\ thrown = caught

\* withRetry of part_001 gave up after four invocations that all failed
\* with a quota error
C29_Witness ==
    /\ variant = "p1Retry"
    /\ pc = "failed"
    /\ attempts = 4
    /\ quotaFailures = 4
    /\ retries = 0
    /\ thrown = caught

\* Waits of the invocation that have run to their end
C30_WaitsCompleted == IF pc = "waiting" THEN waits - 1 ELSE waits

\* C30: in the loop revisions a wait occurs only between two consecutive
\* attempts of an invocation: once the invocation has started, the waits
\* completed are one fewer than the backend calls issued, a wait in progress
\* is followed by a further attempt, and an invocation that has returned or
\* thrown has waited once fewer than it called.
C30_WaitsBetweenAttempts ==
    (variant \in LoopVariants /\ pc # "idle")
    => /\ C30_WaitsCompleted = calls - 1
       /\ calls = attempts
       /\ pc = "waiting" => (attempts < maxAttempts(variant) /\ ENABLED LoopWaitDone)
       /\ pc \in {"done", "failed"} => (waits = calls - 1 /\ ~ENABLED LoopWaitDone)

\* The loop of part_002 threw after its tenth call, nine waits done
C30_Witness ==
    /\ variant = "p2Loop"
    /\ pc = "failed"
    /\ calls = MaxAttemptsP2
    /\ waits = MaxAttemptsP2 - 1

\* The message of the last error a vision model raised in this pass carries
\* a quota marker (lastError is null, or a value without message, otherwise)
C31_LastErrorIsQuota ==
    /\ lastError.cls = "Error"
    /\ Has(lastError, {"429", "RESOURCE_EXHAUSTED", "Quota"})

\* C31: (services revision, reference entry) when the description step has
\* failed, withRetry, having retries left, waits and retries if and only if
\* the message of the last error a vision model raised carries '429',
\* 'RESOURCE_EXHAUSTED' or 'Quota'; quota errors of earlier models of the
\* pass do not enter the decision.
C31_RetryDecidedByLastError ==
    (variant = "svcRetry" /\ entry = "reference" /\ caught.text = "Aggregate")
    => /\ pc \in {"waiting", "failed"}
       /\ caught.detail = MessageOf(lastError)
       /\ pc = "waiting" <=> (retries > 0 /\ C31_LastErrorIsQuota)

\* An earlier model of the pass failed with a quota error, the last error
\* raised was of another kind: not retried, with both retries left
C31_Witness ==
    /\ variant = "svcRetry"
    /\ entry = "reference"
    /\ caught.text = "Aggregate"
    /\ sawQuota
    /\ ~C31_LastErrorIsQuota
    /\ retries = RetriesSvc
    /\ pc = "failed"

\* C32: once the reference image has been cleared (removal, reset, restore
\* or successful generation, all of which also clear originalFile), it stays
\* null until a new file is chosen, whatever file reads and crops were
\* running when it was cleared.
C32_ClearedStaysNull ==
    ~originalFile => referenceImage = NoImage

\* C33: with a file chosen, once every file read and crop started for it has
\* completed, the stored reference image is the crop for the aspect ratio
\* that is selected now, in whatever order the crops finished.
C33_CropOfSelectedRatio ==
    (originalFile /\ crops = {}) => referenceImage = Crop(uiAspectRatio)

\* Step condition of C34_LoadingWhileInFlight
C34_LoadingWhileInFlightStep ==
    /\ isLoading' <=> uiCall'.fn # "none"
    /\ isLoading' => ~(ENABLED handleGenerateClick)'
    /\ (uiCall.fn # "none" /\ uiCall' # uiCall)
       => (uiCall' = NoCall /\ ~isLoading' /\ (clock' = clock + 1 \/ error' = "service error"))
    /\ (uiCall.fn = "none" /\ uiCall'.fn # "none") => (~isLoading /\ isLoading')

\* C34: isLoading is true exactly while a service call started by
\* handleGenerateClick is in flight; the call that returns and the call that
\* throws both set it back to false; while it is true the button starts no
\* further call, so at most one call of the page is in flight.
C34_LoadingWhileInFlight == [][C34_LoadingWhileInFlightStep]_vars

\* After a generation that succeeded, another one has failed: not loading
C34_Witness ==
    /\ ~isLoading
    /\ uiCall = NoCall
    /\ error = "service error"
    /\ clock = 1

\* Step condition of C35_GenerationEffect
C35_GenerationEffectStep ==
    /\ (uiCall.fn # "none" /\ uiCall' = NoCall /\ clock' = clock)
       => /\ history' = history
          /\ referenceImage' = referenceImage
          /\ error' # NullError
    /\ (clock' = clock + 1)
       => /\ uiCall.fn # "none"
          /\ Len(history') = Min(Len(history) + 1, HistoryMax)
          /\ history'[1].prompt = uiCall.prompt
          /\ history'[1].aspectRatio = uiCall.aspectRatio
          /\ history'[1].imageUrl = DataUrl(Payload(clock'))
          /\ \A k \in 2..Len(history') : history'[k] = history[k - 1]
          /\ referenceImage' = NoImage

\* C35: a failed generation leaves the history and the reference image as
\* they were and sets the error message; a successful one adds exactly one
\* item, with the prompt and the aspect ratio that were sent to the service
\* for that image, whatever the page shows by then, and clears the reference
\* image.
C35_GenerationEffect == [][C35_GenerationEffectStep]_vars

\* A history item was restored while a call for the other aspect ratio was
\* in flight; the call has succeeded and its item carries the ratio sent
C35_Witness ==
    /\ clock = 2
    /\ ~isLoading
    /\ Len(history) = 2
    /\ generatedImage = history[1].imageUrl
    /\ history[1].aspectRatio = "1:1"
    /\ history[2].aspectRatio = "16:9"
    /\ uiAspectRatio = "16:9"
    /\ referenceImage = NoImage

\* C36: after any sequence of generations, failures, restores and resets,
\* the image shown is null or is the imageUrl of an item that is in the
\* history now.
C36_ShownImageInHistory ==
    generatedImage = NullUrl
    \/ \E k \in 1..Len(history) : history[k].imageUrl = generatedImage

\* The oldest item still kept was restored after an older one had been
\* dropped from the history
C36_Witness ==
    /\ clock = 7
    /\ Len(history) = HistoryMax
    /\ generatedImage = history[HistoryMax].imageUrl
    /\ generatedImage = DataUrl(Payload(2))

====
